---- MODULE Spec2Model ----
(***************************************************************************)
(* Model of woke's multi-process fuzz campaign (woke/testing/fuzzer.py):   *)
(* the orchestrator `fuzz`, the worker `_run` / `_run_core`, the worker's  *)
(* `exception_handler`, and the three per-worker channels                  *)
(* (multiprocessing.Event, multiprocessing.Pipe, multiprocessing.Queue).   *)
(***************************************************************************)
EXTENDS Integers, Sequences, FiniteSets, TLC

\* ------------------------------------------------------------------ bounds
MaxProc == 2        \* largest process_count explored
MaxSeeds == 2       \* longest supplied seed list explored
MaxEmit == 2        \* coverage snapshots put by all workers of one campaign
MaxRecs == 2        \* function records of one file in an IDE coverage

\* ------------------------------------------------------- program constants
SeedLen == 8        \* os.urandom(8)
BasePort == 8545    \* 8545 + i

\* Python values that cross a channel or sit in a local are written as strings
None == "None"
True == "True"
False == "False"

Workers == 0..(MaxProc - 1)

\* source positions (file, line) a coverage record can hold
Lines == {10, 20}
Pos == {<<"fileA", n>> : n \in Lines}

\* what one transaction of a test hits: one position, or none
NoPos == <<"fileA", 0>>
TxHits == Pos \cup {NoPos}

\* a coverage record maps the positions it holds to their hit counts; a
\* position it does not hold has no hits
Hits(rec, p) == IF p \in DOMAIN rec THEN rec[p] ELSE 0

\* the record with one more hit of position p
Hit(rec, p) ==
    IF p = NoPos THEN rec
    ELSE [q \in DOMAIN rec \cup {p} |-> Hits(rec, q) + (IF q = p THEN 1 ELSE 0)]

\* the values input() can return
Responses == {"y", "n", "other"}

\* the argument lists of the test functions explored
TestArgs == {<< >>, <<"coverage">>, <<"bogus">>}

\* the network kinds explored; _setup knows the first three
KnownNetworks == {"anvil", "ganache", "hardhat"}
NetworkIds == {"anvil", "other"}

\* seeds: a byte string is its length and an abstract content
SuppliedSeeds == [len : {SeedLen}, val : {1, 2}]
EntropyVals == {11, 12}

VARIABLES
    \* inputs of fuzz
    process_count, seeds, passive, cov_proc_num, network_id,
    test_args,          \* the parameter names of the test function
    test_body,          \* the test bodies: how many transactions they run,
                        \* all in all, and what a transaction can hit
    entropy,            \* what the OS random source returns, call by call
    \* orchestrator (fuzz)
    opc,                \* position in fuzz
    processes,          \* keys of the processes dict
    wargs,              \* arguments each worker was spawned with
    cur,                \* loop variable i of the for loop
    to_be_removed, finished, exception_info, response, attach,
    exported_coverages, exported_coverages_per_trans,
    res, res_per_trans,
    cov_file, cov_file_per_trans,
    queue_closed,
    \* channels
    event,              \* finished_event of each worker
    err_up,             \* err pipe, worker -> orchestrator
    err_down,           \* err pipe, orchestrator -> worker
    cov_buf,            \* cov_queue: items put, not yet fed to the pipe
    cov_pipe,           \* cov_queue: items in the pipe, visible to empty()/get()
    \* worker (_run)
    wpc, chain_process, gen, ctx_managers, released, call_args,
    coverage,           \* the counters of the worker's Coverage object
    \* history
    hist,               \* per worker: what it sent and what was received
    n_emit,             \* snapshots put so far, by all workers
    \* _compute_coverage_per_function
    ide_cov,            \* its argument
    funcs_cov           \* what it returned, once it has

inputs == <<process_count, seeds, passive, cov_proc_num, network_id,
            test_args, test_body, entropy>>
orch == <<opc, processes, wargs, cur, to_be_removed, finished, exception_info,
          response, attach, exported_coverages, exported_coverages_per_trans, res,
          res_per_trans, cov_file, cov_file_per_trans, queue_closed>>
chans == <<event, err_up, err_down, cov_buf, cov_pipe>>
work == <<wpc, chain_process, gen, ctx_managers, released, call_args,
          coverage>>
ghost == <<hist, n_emit>>
fnvars == <<ide_cov, funcs_cov>>
vars == <<inputs, orch, chans, work, ghost, fnvars>>

\* ------------------------------------------------------------ fuzz: spawn
Min(S) == CHOOSE x \in S : \A y \in S : x <= y

\* os.urandom(n), the k-th call of the campaign
Urandom(n, k) == [len |-> n, val |-> entropy[k]]

\* RandomSeeds with the padding of lines 222-224 left out
RandomSeedsNoPad(sds, count) == sds

\* lines 221-224: the seed list padded with fresh seeds up to process_count
RandomSeeds(sds, count) ==
    IF Len(sds) < count
    THEN sds \o [k \in 1..(count - Len(sds)) |-> Urandom(SeedLen, k)]
    ELSE sds

\* line 231: zip(range(process_count), random_seeds) yields this many pairs
ZipLen(count, random_seeds) ==
    IF count < Len(random_seeds) THEN count ELSE Len(random_seeds)

\* a Coverage object is written as its identity, a positive number; all the
\* objects of one campaign start with the same (empty) counters
NoCoverage == 0         \* None, where a Coverage object is expected
FirstCoverage == 1      \* the object Coverage() returns

\* lines 226-229
EmptyCoverage(n) == IF n # 0 THEN FirstCoverage ELSE NoCoverage

\* copy.deepcopy: a new object (the k-th copy made); None copies to None
DeepCopy(obj, k) == IF obj = NoCoverage THEN NoCoverage ELSE obj + k

\* ProcCov without the copy: every worker is handed empty_coverage itself
ProcCovShared(i, n) == IF i < n THEN EmptyCoverage(n) ELSE NoCoverage

\* ProcCov without the switch: every worker collects coverage
ProcCovAll(i, n) == DeepCopy(FirstCoverage, i + 1)

\* line 241
ProcCov(i, n) == IF i < n THEN DeepCopy(EmptyCoverage(n), i + 1) ELSE NoCoverage

\* lines 243-258: the arguments of _run for worker i
RunArgs(i, seed) ==
    [index |-> i, port |-> BasePort + i, seed |-> seed,
     tee |-> (passive /\ i = 0), coverage |-> ProcCov(i, cov_proc_num)]

NoArgs == [index |-> -1, port |-> 0, seed |-> [len |-> 0, val |-> 0],
           tee |-> FALSE, coverage |-> NoCoverage]

NoHist == [raised |-> FALSE, env_sent |-> 0, none_sent |-> 0, env_recv |-> 0, none_recv |-> 0,
           decided |-> FALSE, put |-> FALSE]

InitWith(count, sds, pas, cov, targs, body, net, ent) ==
    /\ process_count = count
    /\ test_body = body
    /\ seeds = sds
    /\ passive = pas
    /\ cov_proc_num = cov
    /\ test_args = targs
    /\ network_id = net
    /\ entropy = ent
    /\ opc = "spawn"
    /\ processes = {}
    /\ wargs = [i \in Workers |-> NoArgs]
    /\ cur = 0
    /\ to_be_removed = << >>
    /\ finished = FALSE
    /\ exception_info = None
    /\ response = None
    /\ attach = None
    /\ exported_coverages = << >>
    /\ exported_coverages_per_trans = << >>
    /\ res = << >>
    /\ res_per_trans = << >>
    /\ cov_file = << >>
    /\ cov_file_per_trans = << >>
    /\ queue_closed = [i \in Workers |-> FALSE]
    /\ event = [i \in Workers |-> FALSE]
    /\ err_up = [i \in Workers |-> << >>]
    /\ err_down = [i \in Workers |-> << >>]
    /\ cov_buf = [i \in Workers |-> << >>]
    /\ cov_pipe = [i \in Workers |-> << >>]
    /\ wpc = [i \in Workers |-> "unused"]
    /\ chain_process = [i \in Workers |-> "none"]
    /\ gen = [i \in Workers |-> "none"]
    /\ ctx_managers = [i \in Workers |-> << >>]
    /\ released = [i \in Workers |-> << >>]
    /\ call_args = [i \in Workers |-> << >>]
    /\ coverage = [i \in Workers |-> << >>]
    /\ hist = [i \in Workers |-> NoHist]
    /\ n_emit = 0

\* _compute_coverage_per_function has not been called
FnIdle == ide_cov = << >> /\ funcs_cov = << >>

NoEntropy == [k \in 1..MaxProc |-> Min(EntropyVals)]

\* the campaign and its handshakes: every kind of test function, network and
\* mode; no seeds are supplied, the test bodies run one transaction at most
Init ==
    /\ FnIdle
    /\ \E count \in 1..MaxProc, pas \in BOOLEAN, targs \in TestArgs,
       net \in NetworkIds :
        \E cov \in 0..count :
            InitWith(count, << >>, pas, cov, targs,
                     [txs |-> 1, hits |-> {<<"fileA", Min(Lines)>>}], net, NoEntropy)

\* the coverage of a campaign: a test function that takes the coverage
\* parameter and runs up to MaxEmit transactions
InitCov ==
    /\ FnIdle
    /\ \E count \in 1..MaxProc, pas \in BOOLEAN :
        \E cov \in 0..count :
            InitWith(count, << >>, pas, cov, <<"coverage">>,
                     [txs |-> MaxEmit, hits |-> TxHits], "anvil", NoEntropy)

\* the start of a campaign: every seed list, mode and random source
InitSpawn ==
    /\ FnIdle
    /\ \E count \in 1..MaxProc, pas \in BOOLEAN, targs \in TestArgs,
       len \in 0..MaxSeeds :
        \E cov \in 0..count, sds \in [1..len -> SuppliedSeeds],
           ent \in [1..MaxProc -> EntropyVals] :
            InitWith(count, sds, pas, cov, targs,
                     [txs |-> 0, hits |-> {}], "anvil", ent)

\* lines 221-260: pad the seeds, create the channels, start the processes
Spawn ==
    /\ opc = "spawn"
    /\ LET random_seeds == RandomSeeds(seeds, process_count)
           n == ZipLen(process_count, random_seeds)
       IN /\ processes' = 0..(n - 1)
          /\ wargs' = [i \in Workers |->
                          IF i < n THEN RunArgs(i, random_seeds[i + 1]) ELSE NoArgs]
          /\ wpc' = [i \in Workers |-> IF i < n THEN "start" ELSE "unused"]
    /\ opc' = "loop"
    /\ UNCHANGED <<fnvars, inputs, cur, to_be_removed, finished, exception_info,
                   response, attach, exported_coverages,
                   exported_coverages_per_trans, res, res_per_trans, cov_file,
                   cov_file_per_trans, queue_closed, chans, chain_process, gen,
                   ctx_managers, released, call_args, coverage, ghost>>

\* ------------------------------------------------------------ worker: _run
\* lines 40-60: _setup starts the node, or raises for an unknown network
Setup(net) == IF net \in KnownNetworks THEN "running" ELSE "ValueError"

\* lines 157-165: the scoped log resources, in the order they are appended
LogScopes(tee) ==
    IF tee THEN <<"StdoutTee", "StderrTee">>
    ELSE <<"log_file", "redirect_stdout", "redirect_stderr">>

\* lines 118-119 and 182-183: __exit__ of every manager, in list order
ExitAll(done, managers) == done \o managers

\* lines 79-96: the call arguments of the test function, or the ValueError
RECURSIVE BuildArgs(_, _)
BuildArgs(names, cov) ==
    IF names = << >> THEN [error |-> FALSE, args |-> << >>]
    ELSE IF Head(names) # "coverage" THEN [error |-> TRUE, args |-> << >>]
    ELSE LET rest == BuildArgs(Tail(names), cov)
             arg == IF cov # NoCoverage THEN "CoverageProvider" ELSE None
         IN [error |-> rest.error,
             args |-> IF rest.error THEN << >> ELSE <<arg>> \o rest.args]

HasProvider(args) == \E k \in DOMAIN args : args[k] = "CoverageProvider"

\* lines 133-168 and 72-96: seed the generator, start the node, install the
\* handler, connect (or give up after 10 s), enter the log scope and build
\* the arguments of the test function. Nothing here touches a channel.
\*   unknown network : _setup raises, the error leaves _run
\*   connect timeout : line 154 re-raises, the error leaves _run
\*   bad parameter   : the ValueError is swallowed by lines 179-180
WBegin(i) ==
    /\ wpc[i] = "start"
    /\ IF Setup(network_id) # "running"
       THEN /\ wpc' = [wpc EXCEPT ![i] = "crashed"]
            /\ UNCHANGED <<chain_process, gen, ctx_managers, call_args>>
       ELSE /\ chain_process' = [chain_process EXCEPT ![i] = "running"]
            /\ \/ /\ wpc' = [wpc EXCEPT ![i] = "crashed"]
                  /\ UNCHANGED <<gen, ctx_managers, call_args>>
               \/ /\ gen' = [gen EXCEPT ![i] = "open"]
                  /\ ctx_managers' =
                        [ctx_managers EXCEPT ![i] = LogScopes(wargs[i].tee)]
                  /\ LET args == BuildArgs(test_args, wargs[i].coverage)
                     IN IF args.error
                        THEN /\ wpc' = [wpc EXCEPT ![i] = "finally"]
                             /\ UNCHANGED call_args
                        ELSE /\ wpc' = [wpc EXCEPT ![i] = "test"]
                             /\ call_args' = [call_args EXCEPT ![i] = args.args]
    /\ UNCHANGED <<fnvars, inputs, orch, chans, released, coverage, ghost>>

\* the test body runs one transaction; its coverage provider counts the hit
\* and exports a snapshot: cov_queue.put((full run, last transaction))
WEmit(i) ==
    /\ wpc[i] = "test"
    /\ HasProvider(call_args[i])
    /\ n_emit < test_body.txs
    /\ \E p \in test_body.hits :
        /\ coverage' = [coverage EXCEPT ![i] = Hit(@, p)]
        /\ cov_buf' = [cov_buf EXCEPT
                          ![i] = Append(@, <<Hit(coverage[i], p), Hit(<< >>, p)>>)]
    /\ hist' = [hist EXCEPT ![i].put = TRUE]
    /\ n_emit' = n_emit + 1
    /\ UNCHANGED <<fnvars, inputs, orch, event, err_up, err_down, cov_pipe, wpc,
                   chain_process, gen, ctx_managers, released, call_args>>

\* multiprocessing.Queue: the feeder thread moves a put item into the pipe
WFeed(i) ==
    /\ cov_buf[i] # << >>
    /\ cov_pipe' = [cov_pipe EXCEPT ![i] = Append(@, Head(cov_buf[i]))]
    /\ cov_buf' = [cov_buf EXCEPT ![i] = Tail(@)]
    /\ UNCHANGED <<fnvars, inputs, orch, event, err_up, err_down, work, ghost>>

\* WSendNone that sets the signal in place of the send
WSendNoneSetsFirst(i) ==
    /\ wpc[i] = "test"
    /\ event' = [event EXCEPT ![i] = TRUE]
    /\ wpc' = [wpc EXCEPT ![i] = "set_finished"]
    /\ UNCHANGED <<fnvars, inputs, orch, err_up, err_down, cov_buf, cov_pipe,
                   chain_process, gen, ctx_managers, released, call_args,
                   coverage, ghost>>

\* lines 98 and 100: the test function returns; "no error" is sent
WSendNone(i) ==
    /\ wpc[i] = "test"
    /\ err_up' = [err_up EXCEPT ![i] = Append(@, None)]
    /\ hist' = [hist EXCEPT ![i].none_sent = @ + 1]
    /\ wpc' = [wpc EXCEPT ![i] = "set_finished"]
    /\ UNCHANGED <<fnvars, inputs, orch, event, err_down, cov_buf, cov_pipe,
                   chain_process, gen, ctx_managers, released, call_args,
                   coverage, n_emit>>

\* line 101
WSetFinished(i) ==
    /\ wpc[i] = "set_finished"
    /\ event' = [event EXCEPT ![i] = TRUE]
    /\ wpc' = [wpc EXCEPT ![i] = "finally"]
    /\ UNCHANGED <<fnvars, inputs, orch, err_up, err_down, cov_buf, cov_pipe,
                   chain_process, gen, ctx_managers, released, call_args,
                   coverage, ghost>>

\* line 98 raises and the installed handler runs, lines 117-122: the log
\* scope is left, the envelope is sent
WHandlerSend(i) ==
    /\ wpc[i] = "test"
    /\ released' = [released EXCEPT ![i] = ExitAll(@, ctx_managers[i])]
    /\ ctx_managers' = [ctx_managers EXCEPT ![i] = << >>]
    /\ err_up' = [err_up EXCEPT ![i] = Append(@, "exc_info")]
    /\ hist' = [hist EXCEPT ![i].raised = TRUE, ![i].env_sent = @ + 1]
    /\ wpc' = [wpc EXCEPT ![i] = "h_set"]
    /\ UNCHANGED <<fnvars, inputs, orch, event, err_down, cov_buf, cov_pipe,
                   chain_process, gen, call_args, coverage, n_emit>>

\* WHandlerSet in a handler that does not wait for the decision
WHandlerSetNoWait(i) ==
    /\ wpc[i] = "h_set"
    /\ event' = [event EXCEPT ![i] = TRUE]
    /\ wpc' = [wpc EXCEPT ![i] = "finally"]
    /\ UNCHANGED <<fnvars, inputs, orch, err_up, err_down, cov_buf, cov_pipe,
                   chain_process, gen, ctx_managers, released, call_args,
                   coverage, ghost>>

\* line 123
WHandlerSet(i) ==
    /\ wpc[i] = "h_set"
    /\ event' = [event EXCEPT ![i] = TRUE]
    /\ wpc' = [wpc EXCEPT ![i] = "h_recv"]
    /\ UNCHANGED <<fnvars, inputs, orch, err_up, err_down, cov_buf, cov_pipe,
                   chain_process, gen, ctx_managers, released, call_args,
                   coverage, ghost>>

\* lines 126-127: block for the decision
WHandlerRecv(i) ==
    /\ wpc[i] = "h_recv"
    /\ err_down[i] # << >>
    /\ err_down' = [err_down EXCEPT ![i] = Tail(@)]
    /\ hist' = [hist EXCEPT ![i].decided = TRUE]
    /\ wpc' = [wpc EXCEPT ![i] = IF Head(err_down[i]) = True THEN "h_debug" ELSE "h_final"]
    /\ UNCHANGED <<fnvars, inputs, orch, event, err_up, cov_buf, cov_pipe,
                   chain_process, gen, ctx_managers, released, call_args,
                   coverage, n_emit>>

\* WDebug whose raising debugger leaves the handler without the finally
WDebugRaisesOut(i) ==
    /\ wpc[i] = "h_debug"
    /\ wpc' = [wpc EXCEPT ![i] = "finally"]
    /\ UNCHANGED <<fnvars, inputs, orch, chans, chain_process, gen, ctx_managers,
                   released, call_args, coverage, ghost>>

\* lines 128-129: the debugger session, which returns or raises
WDebug(i) ==
    /\ wpc[i] = "h_debug"
    /\ wpc' = [wpc EXCEPT ![i] = "h_final"]
    /\ UNCHANGED <<fnvars, inputs, orch, chans, chain_process, gen, ctx_managers,
                   released, call_args, coverage, ghost>>

\* WHandlerFinal in a handler that swallows the exception: the test goes on
WHandlerFinalResumes(i) ==
    /\ wpc[i] = "h_final"
    /\ event' = [event EXCEPT ![i] = TRUE]
    /\ wpc' = [wpc EXCEPT ![i] = "test"]
    /\ UNCHANGED <<fnvars, inputs, orch, err_up, err_down, cov_buf, cov_pipe,
                   chain_process, gen, ctx_managers, released, call_args,
                   coverage, ghost>>

\* lines 130-131, then 179-180: the second set; the exception is swallowed
WHandlerFinal(i) ==
    /\ wpc[i] = "h_final"
    /\ event' = [event EXCEPT ![i] = TRUE]
    /\ wpc' = [wpc EXCEPT ![i] = "finally"]
    /\ UNCHANGED <<fnvars, inputs, orch, err_up, err_down, cov_buf, cov_pipe,
                   chain_process, gen, ctx_managers, released, call_args,
                   coverage, ghost>>

\* lines 181-187: leave the log scope, close the connection, kill the node
WFinally(i) ==
    /\ wpc[i] = "finally"
    /\ released' = [released EXCEPT ![i] = ExitAll(@, ctx_managers[i])]
    /\ gen' = [gen EXCEPT ![i] = "closed"]
    /\ chain_process' = [chain_process EXCEPT ![i] = "killed"]
    /\ wpc' = [wpc EXCEPT ![i] = "exited"]
    /\ UNCHANGED <<fnvars, inputs, orch, chans, ctx_managers, call_args, coverage,
                   ghost>>

\* ----------------------------------------------------- coverage: the merge
\* add one worker's record into the running totals: every entry with a hit
\* count > 0 is added to the total of its position; an absent position adds 0
MergeInto(acc, rec) ==
    [p \in DOMAIN acc \cup {q \in DOMAIN rec : rec[q] > 0} |->
        Hits(acc, p) + Hits(rec, p)]

\* export_merged_ide_coverage: fold the records, in list order
RECURSIVE Merge(_)
Merge(records) ==
    IF records = << >> THEN << >>
    ELSE MergeInto(Merge(SubSeq(records, 1, Len(records) - 1)),
                   records[Len(records)])

\* ------------------------------------------------- orchestrator: poll loop
\* a Python dict: key/value entries in insertion order
HasKey(d, key) == \E k \in DOMAIN d : d[k].key = key

\* SetItem that keeps every value ever stored: list.append
SetItemAppend(d, key, val) == Append(d, [key |-> key, val |-> val])

\* d[key] = val: replace the value of a known key, append a new key otherwise
SetItem(d, key, val) ==
    IF HasKey(d, key)
    THEN [k \in DOMAIN d |-> IF d[k].key = key THEN [key |-> key, val |-> val]
                             ELSE d[k]]
    ELSE Append(d, [key |-> key, val |-> val])

\* Values that passes on the newest entry alone
ValuesNewest(d) ==
    IF d = << >> THEN << >> ELSE <<d[Len(d)].val>>

\* list(d.values())
Values(d) == [k \in DOMAIN d |-> d[k].val]

\* AsksUser that forgets worker 0 of a passive campaign
AsksUserNotPassive(pas, i) == ~pas

\* line 293: is the user asked?
AsksUser(pas, i) == ~pas \/ i = 0

\* lines 311-314: the decision an answer gives; None asks again
Decision(r) ==
    IF r = "y" THEN True ELSE IF r = "n" THEN False ELSE None

\* the keys the for loop of line 283 visits after key i
After(i) == {j \in processes : j > i}

\* lines 281-282: the loop test, and the start of one sweep over the workers
OLoop ==
    /\ opc = "loop"
    /\ IF processes = {}
       THEN /\ opc' = "done"
            /\ UNCHANGED <<cur, to_be_removed>>
       ELSE /\ opc' = "wait"
            /\ cur' = Min(processes)
            /\ to_be_removed' = << >>
    /\ UNCHANGED <<fnvars, inputs, processes, wargs, finished, exception_info, response,
                   attach, exported_coverages, exported_coverages_per_trans,
                   res, res_per_trans, cov_file, cov_file_per_trans,
                   queue_closed, chans, work, ghost>>

\* OWait that marks the worker for removal whether or not its event is set
OWaitMarksAll ==
    /\ opc = "wait"
    /\ finished' = event[cur]
    /\ to_be_removed' = Append(to_be_removed, cur)
    /\ opc' = IF event[cur] THEN "recv" ELSE "drain"
    /\ UNCHANGED <<fnvars, inputs, processes, wargs, cur, exception_info, response,
                   attach, exported_coverages, exported_coverages_per_trans,
                   res, res_per_trans, cov_file, cov_file_per_trans,
                   queue_closed, chans, work, ghost>>

\* lines 284-286: e.wait(0.125)
OWait ==
    /\ opc = "wait"
    /\ finished' = event[cur]
    /\ IF event[cur]
       THEN /\ to_be_removed' = Append(to_be_removed, cur)
            /\ opc' = "recv"
       ELSE /\ opc' = "drain"
            /\ UNCHANGED to_be_removed
    /\ UNCHANGED <<fnvars, inputs, processes, wargs, cur, exception_info, response,
                   attach, exported_coverages, exported_coverages_per_trans,
                   res, res_per_trans, cov_file, cov_file_per_trans,
                   queue_closed, chans, work, ghost>>

\* lines 288-306 and 315-316: receive; decide whether the user is asked
ORecv ==
    /\ opc = "recv"
    /\ err_up[cur] # << >>
    /\ LET msg == Head(err_up[cur])
       IN /\ exception_info' = msg
          /\ err_up' = [err_up EXCEPT ![cur] = Tail(@)]
          /\ IF msg = None
             THEN /\ opc' = "drain"
                  /\ hist' = [hist EXCEPT ![cur].none_recv = @ + 1]
                  /\ UNCHANGED attach
             ELSE /\ hist' = [hist EXCEPT ![cur].env_recv = @ + 1]
                  /\ IF AsksUser(passive, cur)
                     THEN /\ opc' = "prompt"
                          /\ attach' = None
                     ELSE /\ opc' = "clear"
                          /\ attach' = False
    /\ UNCHANGED <<fnvars, inputs, processes, wargs, cur, to_be_removed, finished,
                   response, exported_coverages, exported_coverages_per_trans,
                   res, res_per_trans, cov_file, cov_file_per_trans,
                   queue_closed, event, err_down, cov_buf, cov_pipe, work,
                   n_emit>>

\* lines 307-314: input() returns; y and n decide, anything else asks again
OPrompt ==
    /\ opc = "prompt"
    /\ \E r \in Responses :
        /\ response' = r
        /\ attach' = Decision(r)
        /\ opc' = IF Decision(r) = None THEN "prompt" ELSE "clear"
    /\ UNCHANGED <<fnvars, inputs, processes, wargs, cur, to_be_removed, finished,
                   exception_info, exported_coverages,
                   exported_coverages_per_trans, res, res_per_trans, cov_file,
                   cov_file_per_trans, queue_closed, chans, work, ghost>>

\* OClear that leaves the event set
OClearSkips ==
    /\ opc = "clear"
    /\ opc' = "send"
    /\ UNCHANGED <<fnvars, inputs, processes, wargs, cur, to_be_removed, finished,
                   exception_info, response, attach, exported_coverages,
                   exported_coverages_per_trans, res, res_per_trans, cov_file,
                   cov_file_per_trans, queue_closed, chans, work, ghost>>

\* line 318
OClear ==
    /\ opc = "clear"
    /\ event' = [event EXCEPT ![cur] = FALSE]
    /\ opc' = "send"
    /\ UNCHANGED <<fnvars, inputs, processes, wargs, cur, to_be_removed, finished,
                   exception_info, response, attach, exported_coverages,
                   exported_coverages_per_trans, res, res_per_trans, cov_file,
                   cov_file_per_trans, queue_closed, err_up, err_down, cov_buf,
                   cov_pipe, work, ghost>>

\* line 319
OSend ==
    /\ opc = "send"
    /\ err_down' = [err_down EXCEPT ![cur] = Append(@, attach)]
    /\ opc' = "wait2"
    /\ UNCHANGED <<fnvars, inputs, processes, wargs, cur, to_be_removed, finished,
                   exception_info, response, attach, exported_coverages,
                   exported_coverages_per_trans, res, res_per_trans, cov_file,
                   cov_file_per_trans, queue_closed, event, err_up, cov_buf,
                   cov_pipe, work, ghost>>

\* line 320: e.wait() without a timeout
OWait2 ==
    /\ opc = "wait2"
    /\ event[cur]
    /\ opc' = "drain"
    /\ UNCHANGED <<fnvars, inputs, processes, wargs, cur, to_be_removed, finished,
                   exception_info, response, attach, exported_coverages,
                   exported_coverages_per_trans, res, res_per_trans, cov_file,
                   cov_file_per_trans, queue_closed, chans, work, ghost>>

\* line 342, `if res:`: a dict is true when it has an entry
Truthy(r) == DOMAIN r # {}

\* WriteFiles that leaves the per-transaction file as it was
WriteFilesRunOnly(r, rt, f, ft) ==
    IF Truthy(r) THEN <<<<r>>, ft>> ELSE <<f, ft>>

\* lines 342-346: both files (f, ft) are opened "w" and written, each with its
\* merge, when the full-run merge is true; else neither is touched
WriteFiles(r, rt, f, ft) ==
    IF Truthy(r) THEN <<<<r>>, <<rt>>>> ELSE <<f, ft>>

\* lines 327-346: one pass of the drain loop that finds the queue not empty:
\* get; skip the item when another one waits; else record it, merge, write
ODrainGet ==
    /\ opc = "drain"
    /\ cov_pipe[cur] # << >>
    /\ LET exported_coverage == Head(cov_pipe[cur])
           rest == Tail(cov_pipe[cur])
       IN /\ cov_pipe' = [cov_pipe EXCEPT ![cur] = rest]
          /\ IF rest # << >>
             THEN UNCHANGED <<exported_coverages, exported_coverages_per_trans,
                              res, res_per_trans, cov_file, cov_file_per_trans>>
             ELSE LET ec == SetItem(exported_coverages, cur,
                                    exported_coverage[1])
                      ect == SetItem(exported_coverages_per_trans, cur,
                                     exported_coverage[2])
                      r == Merge(Values(ec))
                      rt == Merge(Values(ect))
                  IN /\ exported_coverages' = ec
                     /\ exported_coverages_per_trans' = ect
                     /\ res' = r
                     /\ res_per_trans' = rt
                     /\ LET w == WriteFiles(r, rt, cov_file,
                                            cov_file_per_trans)
                        IN /\ cov_file' = w[1]
                           /\ cov_file_per_trans' = w[2]
    /\ UNCHANGED <<fnvars, inputs, opc, processes, wargs, cur, to_be_removed, finished,
                   exception_info, response, attach, queue_closed, event,
                   err_up, err_down, cov_buf, work, ghost>>

\* ODrainEnd that never pops a finished worker
ODrainEndKeeps ==
    /\ opc = "drain"
    /\ cov_pipe[cur] = << >>
    /\ queue_closed' = [queue_closed EXCEPT ![cur] = @ \/ finished]
    /\ IF After(cur) # {}
       THEN /\ cur' = Min(After(cur))
            /\ opc' = "wait"
       ELSE /\ opc' = "loop"
            /\ UNCHANGED cur
    /\ finished' = FALSE
    /\ exception_info' = None
    /\ response' = None
    /\ attach' = None
    /\ UNCHANGED <<fnvars, inputs, processes, wargs, to_be_removed, exported_coverages,
                   exported_coverages_per_trans, res, res_per_trans, cov_file,
                   cov_file_per_trans, chans, work, ghost>>

\* lines 327 and 360-364: the queue is empty; close it for a finished worker,
\* go on to the next worker, or end the sweep and drop the finished ones.
\* The locals of the loop body are bound again before they are read in the
\* next pass: between two passes they are written as unset.
ODrainEnd ==
    /\ opc = "drain"
    /\ cov_pipe[cur] = << >>
    /\ queue_closed' = [queue_closed EXCEPT ![cur] = @ \/ finished]
    /\ IF After(cur) # {}
       THEN /\ cur' = Min(After(cur))
            /\ opc' = "wait"
            /\ UNCHANGED processes
       ELSE /\ processes' =
                 processes \ {to_be_removed[k] : k \in DOMAIN to_be_removed}
            /\ opc' = "loop"
            /\ UNCHANGED cur
    /\ finished' = FALSE
    /\ exception_info' = None
    /\ response' = None
    /\ attach' = None
    /\ UNCHANGED <<fnvars, inputs, wargs, to_be_removed, exported_coverages,
                   exported_coverages_per_trans, res, res_per_trans, cov_file,
                   cov_file_per_trans, chans, work, ghost>>

\* ------------------------------------- _compute_coverage_per_function
\* an IDE coverage is a dict: file path -> list of function records
\* [name, coverageHits]; the dict is written as its entries, in order
FnPaths == {"a.sol", "b.sol"}
FnNames == {"f", "g"}
FnHits == {0, 1, 2}
FnRecords == [name : FnNames, coverageHits : FnHits]
PathRecs == UNION {[1..n -> FnRecords] : n \in 0..MaxRecs}

\* the dicts explored: no file, one file, or both files in either order
IdeCovs ==
    {<< >>}
    \cup {<<[key |-> fp, val |-> recs]>> : fp \in FnPaths, recs \in PathRecs}
    \cup {d \in {<<[key |-> fp, val |-> recs], [key |-> fq, val |-> more]>> :
                    fp \in FnPaths, fq \in FnPaths,
                    recs \in PathRecs, more \in PathRecs} :
            d[1].key # d[2].key}

\* lines 195-196: the names of the records with hits, of all files, one
\* list entry per record
RECURSIVE HitNames(_)
HitNames(ide) ==
    IF ide = << >> THEN << >>
    ELSE LET recs == Head(ide).val
         IN [k \in 1..Len(SelectSeq(recs, LAMBDA rec : rec.coverageHits > 0))
                |-> SelectSeq(recs, LAMBDA rec : rec.coverageHits > 0)[k].name]
            \o HitNames(Tail(ide))

\* list.count
Count(q, x) == Cardinality({k \in DOMAIN q : q[k] = x})

\* a key of the result: the bare name, or f"{fn_path}:{name}"; the pair
\* stands for the string (a function name holds no colon)
BareKey(name) == <<"", name>>
PathKey(fn_path, name) == <<fn_path, name>>

\* lines 202-205: the key a record with hits is stored under
FnKey(fn_names, fn_path, fn_rec) ==
    IF Count(fn_names, fn_rec.name) > 1
    THEN PathKey(fn_path, fn_rec.name)
    ELSE BareKey(fn_rec.name)

\* lines 199-205: the inner loop over the records of one file
RECURSIVE AddRecs(_, _, _, _)
AddRecs(out, fn_names, fn_path, path_rec) ==
    IF path_rec = << >> THEN out
    ELSE LET fn_rec == Head(path_rec)
             next == IF fn_rec.coverageHits = 0 THEN out
                     ELSE SetItem(out, FnKey(fn_names, fn_path, fn_rec),
                                  fn_rec.coverageHits)
         IN AddRecs(next, fn_names, fn_path, Tail(path_rec))

\* lines 198-205: the outer loop over the files
RECURSIVE AddFiles(_, _, _)
AddFiles(out, fn_names, ide) ==
    IF ide = << >> THEN out
    ELSE AddFiles(AddRecs(out, fn_names, Head(ide).key, Head(ide).val),
                  fn_names, Tail(ide))

\* lines 190-207
ComputeCoveragePerFunction(ide) == AddFiles(<< >>, HitNames(ide), ide)

\* the call: the result is returned
ComputeCoverage ==
    /\ funcs_cov = << >>
    /\ funcs_cov' = <<ComputeCoveragePerFunction(ide_cov)>>
    /\ UNCHANGED <<ide_cov, inputs, orch, chans, work, ghost>>

\* a call of the function on any of the IDE coverages explored; the campaign
\* is not under way
InitFn ==
    /\ ide_cov \in IdeCovs
    /\ funcs_cov = << >>
    /\ InitWith(1, << >>, FALSE, 0, << >>, [txs |-> 0, hits |-> {}], "anvil",
                NoEntropy)

\* line 366 is the last statement of fuzz: there is no return statement and
\* no raise after the poll loop, whatever the workers reported; the call
\* returns None
FuzzResult == None

\* ------------------------------------------------------- specifications
Worker(i) ==
    \/ WBegin(i) \/ WEmit(i) \/ WFeed(i) \/ WSendNone(i) \/ WSetFinished(i)
    \/ WHandlerSend(i) \/ WHandlerSet(i) \/ WHandlerRecv(i) \/ WDebug(i)
    \/ WHandlerFinal(i) \/ WFinally(i)

Orchestrator ==
    \/ Spawn \/ OLoop \/ OWait \/ ORecv \/ OPrompt \/ OClear \/ OSend
    \/ OWait2 \/ ODrainGet \/ ODrainEnd

Next == Orchestrator \/ \E i \in Workers : Worker(i)

Spec == Init /\ [][Next]_vars

SpecCov == InitCov /\ [][Next]_vars

SpecSpawn == InitSpawn /\ [][Spawn]_vars

SpecFn == InitFn /\ [][ComputeCoverage]_vars

\* with the fairness the scheduling gives: every process that can take a step
\* takes one, and the user at the prompt ends up answering y or n
FairSpec ==
    /\ Init /\ [][Next]_vars
    /\ WF_vars(Orchestrator)
    /\ \A i \in Workers : WF_vars(Worker(i))
    /\ SF_vars(OPrompt /\ opc' = "clear")

\* ------------------------------------------------------------------ claims
Spawned == opc # "spawn"
Removed(i) == Spawned /\ i < process_count /\ i \notin processes

\* C1: a worker whose test body raises sends exactly one exception envelope,
\* the orchestrator receives exactly that one (it has it before it sends the
\* decision and before it drops the worker), and the worker sends no
\* "no error" message besides it.
C1_OneEnvelope ==
    \A i \in Workers :
        /\ hist[i].env_sent <= 1
        /\ hist[i].env_recv <= hist[i].env_sent
        /\ hist[i].raised =>
              /\ hist[i].env_sent = 1
              /\ hist[i].none_sent = 0
              /\ hist[i].none_recv = 0
              /\ (hist[i].decided \/ Removed(i)) => hist[i].env_recv = 1

C1_Witness ==
    \E i \in Workers :
        hist[i].raised /\ Removed(i) /\ hist[i].env_recv = 1 /\ opc = "done"

\* C2: the node of a worker whose test body raised is not killed before the
\* worker has received the orchestrator's decision, attach or not.
C2_KillAfterDecision ==
    \A i \in Workers :
        (hist[i].raised /\ chain_process[i] = "killed") => hist[i].decided

C2_Witness ==
    \E i \in Workers :
        hist[i].raised /\ chain_process[i] = "killed" /\ hist[i].decided

\* C3: with process_count >= |seeds|, the workers spawned are exactly
\* 0..process_count-1, worker i < |seeds| runs with seeds[i], and every later
\* worker runs with 8 bytes from the random source (the next ones, in order).
C3_Seeds ==
    (Spawned /\ process_count >= Len(seeds)) =>
        /\ processes = 0..(process_count - 1)
        /\ \A i \in 0..(process_count - 1) :
              /\ wpc[i] # "unused"
              /\ wargs[i].index = i
              /\ i < Len(seeds) => wargs[i].seed = seeds[i + 1]
              /\ i >= Len(seeds) =>
                    /\ wargs[i].seed.len = SeedLen
                    /\ wargs[i].seed.val = entropy[i - Len(seeds) + 1]
        /\ \A i \in Workers : i >= process_count => wpc[i] = "unused"

C3_Witness ==
    Spawned /\ 0 < Len(seeds) /\ Len(seeds) < process_count

\* ---- coverage claims
\* the value a dict holds for a key it has
Item(d, key) == d[CHOOSE k \in DOMAIN d : d[k].key = key].val

\* the snapshot alone in the queue of the worker being drained
Lone == Head(cov_pipe[cur])

\* the drain of the current worker is about to record, once more, the very
\* full-run snapshot the orchestrator retains for it
Resubmitted ==
    /\ opc = "drain"
    /\ Len(cov_pipe[cur]) = 1
    /\ HasKey(exported_coverages, cur)
    /\ Item(exported_coverages, cur) = Lone[1]

\* the same for the per-transaction snapshot
ResubmittedPerTrans ==
    /\ opc = "drain"
    /\ Len(cov_pipe[cur]) = 1
    /\ HasKey(exported_coverages_per_trans, cur)
    /\ Item(exported_coverages_per_trans, cur) = Lone[2]

\* a dict holds one entry per key
OnePerKey(d) == \A k, l \in DOMAIN d : d[k].key = d[l].key => k = l

\* C4: only the latest snapshot of a worker is retained, one per worker: a
\* drain that records a snapshot identical to the one retained for that
\* worker leaves the retained records and the merged aggregate as they were,
\* for the full-run records and for the per-transaction records alike.
C4_ResubmitIdempotent ==
    /\ [](OnePerKey(exported_coverages)
            /\ OnePerKey(exported_coverages_per_trans))
    /\ [][(Resubmitted /\ cov_pipe'[cur] = << >>) =>
              (exported_coverages' = exported_coverages /\ res' = res)]_vars
    /\ [][(ResubmittedPerTrans /\ cov_pipe'[cur] = << >>) =>
              /\ exported_coverages_per_trans' = exported_coverages_per_trans
              /\ res_per_trans' = res_per_trans]_vars

\* the resubmitted snapshot has hits: counting it twice would show
C4_Witness ==
    /\ Resubmitted
    /\ \E p \in Pos : Hits(Lone[1], p) > 0
    /\ \E p \in Pos : Hits(res, p) > 0

\* the retained records of a dict, one per worker, in worker order
RECURSIVE ByWorker(_, _)
ByWorker(d, i) ==
    IF i >= MaxProc THEN << >>
    ELSE (IF HasKey(d, i) THEN <<Item(d, i)>> ELSE << >>) \o ByWorker(d, i + 1)

\* C5: the aggregates do not depend on the order in which the workers'
\* snapshots arrived: they are the merge of the retained records taken in
\* worker order, whatever order the records were inserted in.
C5_OrderIndependent ==
    /\ res = Merge(ByWorker(exported_coverages, 0))
    /\ res_per_trans = Merge(ByWorker(exported_coverages_per_trans, 0))

\* a later worker's record arrived first; the two records differ, both count
C5_Witness ==
    /\ Len(exported_coverages) = 2
    /\ exported_coverages[1].key > exported_coverages[2].key
    /\ exported_coverages[1].val # exported_coverages[2].val
    /\ \A k \in 1..2 : \E p \in Pos : Hits(exported_coverages[k].val, p) > 0
    /\ res = Merge(Values(exported_coverages))

\* the last snapshot worker i put on its queue (its counters, once it put one)
LastEmitted(i) == IF hist[i].put THEN coverage[i] ELSE << >>

RECURSIVE SumEmitted(_, _)
SumEmitted(i, p) ==
    IF i >= MaxProc THEN 0 ELSE Hits(LastEmitted(i), p) + SumEmitted(i + 1, p)

\* C6: when the campaign has finished, the aggregate holds for every position
\* the sum over the workers of the hits in the last snapshot each emitted
\* (a position with hits is present), and no snapshot of a removed worker is
\* left undrained.
C6_FinalAggregate ==
    /\ opc = "done" =>
          \A p \in Pos :
              /\ Hits(res, p) = SumEmitted(0, p)
              /\ SumEmitted(0, p) > 0 => p \in DOMAIN res
    /\ \A i \in Workers :
          Removed(i) => (cov_buf[i] = << >> /\ cov_pipe[i] = << >>)

\* C7: with cov_proc_num = 0 no worker holds a coverage object, a test that
\* takes the coverage parameter is called with None, nothing is ever put on
\* a coverage queue and neither coverage file is written.
C7_CoverageOff ==
    cov_proc_num = 0 =>
        /\ \A i \in Workers :
              /\ wargs[i].coverage = NoCoverage
              /\ \A k \in DOMAIN call_args[i] : call_args[i][k] = None
              /\ cov_buf[i] = << >> /\ cov_pipe[i] = << >>
              /\ ~hist[i].put
        /\ n_emit = 0
        /\ cov_file = << >>
        /\ cov_file_per_trans = << >>

C7_Witness ==
    /\ cov_proc_num = 0
    /\ opc = "done"
    /\ \E i \in Workers : call_args[i] = <<None>> /\ hist[i].none_recv = 1

\* C8: after the spawn, worker i collects coverage exactly when
\* i < cov_proc_num, and every collecting worker holds a Coverage object of
\* its own: not the initial one, not another worker's.
C8_CoverageWorkers ==
    Spawned =>
        \A i \in processes :
            /\ (wargs[i].coverage # NoCoverage) <=> (i < cov_proc_num)
            /\ i < cov_proc_num =>
                  /\ wargs[i].coverage # EmptyCoverage(cov_proc_num)
                  /\ \A j \in processes :
                        (j # i /\ j < cov_proc_num) =>
                            wargs[j].coverage # wargs[i].coverage

C8_Witness ==
    /\ Spawned
    /\ cov_proc_num = 2
    /\ wargs[0].coverage # NoCoverage
    /\ wargs[1].coverage # NoCoverage

\* C9: the user is asked exactly when the campaign is not passive or the
\* worker is worker 0; otherwise the decision is "no attach", unasked. An
\* asked user decides attach with y and no attach with n; any other answer
\* asks again and sends nothing. What is sent is the decision taken.
Deciding == opc \in {"clear", "send", "wait2"}

C9_AttachDecision ==
    /\ opc = "prompt" =>
          /\ ~passive \/ cur = 0
          /\ exception_info # None
          /\ response \in {None, "other"}
          /\ attach = None
          /\ err_down[cur] = << >>
    /\ (Deciding /\ passive /\ cur # 0) =>
          (response = None /\ attach = False)
    /\ (Deciding /\ (~passive \/ cur = 0)) =>
          /\ response \in {"y", "n"}
          /\ attach = True <=> response = "y"
          /\ attach = False <=> response = "n"
    /\ \A i \in Workers :
          err_down[i] # << >> =>
              (i = cur /\ opc = "wait2" /\ err_down[i] = <<attach>>)

C9_Witness ==
    /\ passive /\ cur = 0 /\ opc = "wait2"
    /\ response = "y" /\ err_down[cur] = <<True>>

\* C10: a worker that has ended without its completion signal and without a
\* message on its exception channel does not keep the orchestrator waiting:
\* the poll loop comes to an end.
SilentlyDead(i) ==
    /\ wpc[i] \in {"crashed", "exited"}
    /\ hist[i].env_sent = 0
    /\ hist[i].none_sent = 0

C10_NoHang == (\E i \in Workers : SilentlyDead(i)) ~> (opc = "done")

\* ---- outcome and exit paths
\* some worker's exception envelope reached the orchestrator
SomeReported == \E i \in Workers : hist[i].env_recv > 0

\* C11: when fuzz has terminated, its result tells whether some worker
\* reported an exception: it is the plain result (success) exactly when no
\* worker did, and something else (failed) when one did.
C11_ResultReflectsFailure ==
    opc = "done" => ((FuzzResult # None) <=> SomeReported)

\* the worker process has ended: _run returned, or an error left it
WorkerEnded(i) == wpc[i] \in {"crashed", "exited"}

\* C12: whatever path the worker leaves _run by, once its node subprocess was
\* started the node has been killed, and a log scope that was entered has been
\* left: no ended worker has a node still running.
C12_NodeStopped ==
    \A i \in Workers :
        (WorkerEnded(i) /\ chain_process[i] # "none") =>
            /\ chain_process[i] = "killed"
            /\ gen[i] # "none" =>
                  Len(released[i]) = Len(LogScopes(wargs[i].tee))

\* the test function of worker i declares a parameter _run_core does not know
BadParam(i) ==
    /\ wpc[i] \notin {"unused", "start", "crashed"}
    /\ BuildArgs(test_args, wargs[i].coverage).error

\* C13: a worker whose test function declares an unrecognized parameter never
\* calls the test function, and once it has ended its error has been reported
\* to the orchestrator: an envelope was sent and the completion signal set
\* (it is still set, or the orchestrator has already acted on it).
C13_BadParamReported ==
    \A i \in Workers :
        BadParam(i) =>
            /\ call_args[i] = << >>
            /\ hist[i].none_sent = 0
            /\ WorkerEnded(i) =>
                  /\ hist[i].env_sent = 1
                  /\ event[i] \/ hist[i].env_recv = 1

\* ---- persistence of the aggregates
\* the step records a snapshot of the worker being drained
Records ==
    /\ opc = "drain"
    /\ Len(cov_pipe[cur]) = 1
    /\ cov_pipe'[cur] = << >>

InPass == opc \in {"wait", "recv", "prompt", "clear", "send", "wait2", "drain"}

HandlerDone(i) == hist[i].raised /\ wpc[i] \in {"finally", "exited"}

\* C16: the steps of the failure handshake come in this order: envelope sent,
\* first set, envelope received, decision sent, decision received, debugger
\* (on attach only), second set; the orchestrator goes on to the drain and
\* removes the worker only after the second set, which the worker does on the
\* attach path and on the no-attach path, however the debugger ends.
C16_HandshakeOrder ==
    \A i \in Workers :
        /\ wpc[i] = "h_set" =>
              /\ hist[i].env_sent = 1 /\ err_up[i] = <<"exc_info">>
              /\ hist[i].env_recv = 0
        /\ hist[i].env_recv = 1 =>
              wpc[i] \in {"h_recv", "h_debug", "h_final", "finally", "exited"}
        /\ err_down[i] # << >> =>
              hist[i].env_recv = 1 /\ wpc[i] = "h_recv" /\ ~hist[i].decided
        /\ hist[i].decided => hist[i].env_recv = 1
        /\ wpc[i] = "h_debug" =>
              /\ hist[i].decided /\ attach = True
              /\ cur = i /\ opc = "wait2" /\ ~event[i]
        /\ wpc[i] = "h_final" =>
              hist[i].decided /\ cur = i /\ opc = "wait2" /\ ~event[i]
        /\ HandlerDone(i) => hist[i].decided /\ event[i]
        /\ (hist[i].env_recv = 1 /\ cur = i /\ opc = "drain") => HandlerDone(i)
        /\ (hist[i].raised /\ Removed(i)) => HandlerDone(i)

\* the orchestrator has come out of its second wait for a worker whose
\* debugger session the user asked for
C16_Witness ==
    /\ opc = "drain" /\ response = "y" /\ attach = True
    /\ hist[cur].env_recv = 1 /\ HandlerDone(cur) /\ event[cur]

\* ---- the log scope
Reverse(q) == [k \in 1..Len(q) |-> q[Len(q) + 1 - k]]

\* C17: the scoped log resources of a worker are released in the reverse of
\* the order they were entered in, by the exception handler (before it sends
\* the envelope) and by the normal exit path alike.
C17_ReverseRelease ==
    \A i \in Workers :
        /\ hist[i].env_sent = 1 => released[i] # << >>
        /\ wpc[i] = "exited" => released[i] # << >>
        /\ released[i] # << >> =>
              released[i] = Reverse(LogScopes(wargs[i].tee))

\* ---- termination
\* worker i has fully finished: a clean worker has set its completion signal,
\* a failing worker its second signal
FullyFinished(i) ==
    \/ hist[i].none_sent = 1 /\ wpc[i] \in {"finally", "exited"}
    \/ HandlerDone(i)

AllFinished ==
    Spawned /\ \A i \in Workers : i < process_count => FullyFinished(i)

\* C18: under fair scheduling, if every worker ends up fully finished the poll
\* loop terminates, with an empty active set; and it never terminates while
\* some worker has not fully finished.
C18_Terminates ==
    /\ [](opc = "done" => (processes = {} /\ AllFinished))
    /\ (\A i \in Workers :
            <>(Spawned /\ (i < process_count => FullyFinished(i))))
        => <>(opc = "done")

\* the loop has ended after two failing workers went through the handshake
C18_Witness ==
    /\ opc = "done" /\ process_count = 2 /\ processes = {}
    /\ \A i \in Workers : HandlerDone(i)

\* ---- the two signals of a failing worker
\* C20: the second set of a failing worker is not lost and not taken for the
\* first: while the orchestrator clears the event and sends the decision the
\* worker is blocked in recv, its first set behind it; the event is clear
\* from the clear until the worker's second set; and the orchestrator's
\* unbounded wait finds the event set only when the handler has done its
\* second set.
C20_SecondSetNotLost ==
    /\ opc \in {"clear", "send"} =>
          /\ wpc[cur] = "h_recv"
          /\ err_down[cur] = << >>
    /\ opc = "clear" => event[cur]
    /\ opc = "send" => ~event[cur]
    /\ opc = "wait2" => (event[cur] <=> HandlerDone(cur))
    /\ \A i \in Workers :
          (hist[i].decided /\ ~HandlerDone(i)) =>
              (cur = i /\ opc = "wait2" /\ ~event[i])

\* the unbounded wait of the orchestrator is about to return on the second
\* set of a worker that was told not to attach, unasked
C20_Witness ==
    /\ opc = "wait2" /\ passive /\ cur = 1 /\ attach = False
    /\ event[cur] /\ HandlerDone(cur)

\* ---- coverage per function
\* the records of the argument, each named by its place: file k, record l
RecIds == {<<k, l>> : k \in 1..Cardinality(FnPaths), l \in 1..MaxRecs}
IsRec(id) == id[1] \in DOMAIN ide_cov /\ id[2] \in DOMAIN ide_cov[id[1]].val
Rec(id) == ide_cov[id[1]].val[id[2]]
HasHits(id) == IsRec(id) /\ Rec(id).coverageHits > 0

\* how many records with hits carry this name, over all files
Namesakes(name) == Cardinality({id \in RecIds : HasHits(id) /\ Rec(id).name = name})

\* the key the claim gives a record with hits
ClaimKey(id) ==
    IF Namesakes(Rec(id).name) > 1
    THEN PathKey(ide_cov[id[1]].key, Rec(id).name)
    ELSE BareKey(Rec(id).name)

\* C19: the result has, for every record with hits, an entry of its own with
\* that record's hit count, keyed "<file path>:<name>" when the name occurs in
\* more than one record with hits and keyed by the bare name otherwise; a
\* record without hits has no entry; no two records with hits share a key.
C19_PerFunction ==
    funcs_cov # << >> =>
        LET out == funcs_cov[1]
        IN /\ \A id \in RecIds :
                 HasHits(id) =>
                     /\ HasKey(out, ClaimKey(id))
                     /\ Item(out, ClaimKey(id)) = Rec(id).coverageHits
           /\ \A k \in DOMAIN out :
                 \E id \in RecIds : HasHits(id) /\ ClaimKey(id) = out[k].key
           /\ \A id, other \in RecIds :
                 (HasHits(id) /\ HasHits(other) /\ id # other) =>
                     ClaimKey(id) # ClaimKey(other)
           /\ OnePerKey(out)

\* ---- the receive after a successful poll
\* the orchestrator has not yet read the exception channel of worker i
Unread(i) == hist[i].none_recv + hist[i].env_recv = 0

\* C21: a worker sends on its exception channel before it sets its
\* completion signal, on the normal path and on the exception path: whenever
\* the signal of a worker is set and its channel has not been read yet, a
\* message (the envelope or None) is on the channel, so the receive that
\* follows a successful poll finds one.
C21_MessageBeforeSignal ==
    /\ \A i \in Workers :
          (event[i] /\ Unread(i)) =>
              /\ Len(err_up[i]) = 1
              /\ hist[i].none_sent + hist[i].env_sent = 1
    /\ opc = "recv" =>
          /\ Unread(cur)
          /\ err_up[cur] \in {<<None>>, <<"exc_info">>}

\* the poll of worker 1 found its signal set and its envelope is waiting,
\* after worker 0 was found finished with None on its channel
C21_Witness ==
    /\ opc = "recv" /\ cur = 1
    /\ err_up[1] = <<"exc_info">>
    /\ hist[0].none_recv = 1

====
